---- MODULE Spec2Model ----
(***************************************************************************)
(* The command processor of the Tegra GPU emulation                        *)
(* (src/video_core/command_processor.cpp): GPU::ProcessCommandList walks a *)
(* region of 32-bit command words, expands every header according to its   *)
(* submission mode and drives GPU::WriteReg, which binds subchannels to    *)
(* engines, accumulates macro uploads and forwards register writes.        *)
(*                                                                         *)
(* A u32 is kept as its two 16-bit halves [hi, lo] (value = hi*2^16 + lo), *)
(* so that every bit pattern, modes 4..7 included, is representable.       *)
(***************************************************************************)
EXTENDS Integers, Sequences, FiniteSets, TLC

VARIABLES
    \* --- GPU state (members of Tegra::GPU) ---
    bound_engines,        \* std::map subchannel -> EngineID (a partial function)
    current_macro_entry,  \* u32
    current_macro_code,   \* std::vector<u32>
    \* --- the engines, seen through what they receive ---
    fermi_2d,             \* sequence of <<method, value>>
    maxwell_3d,           \* sequence of <<method, value, remaining_params>>
    maxwell_compute,      \* sequence of <<method, value>>
    macros,               \* sequence of <<entry, code>> given to SubmitMacroCode
    \* --- ProcessCommandList's frame ---
    pc,                   \* "idle" | "while" | "switch" | "for_inc" | "for_noninc" | "for_once"
    head_address,
    size,
    current_addr,
    header,
    i,
    fatal,                \* the process has been stopped by a failed assertion
    \* --- the environment ---
    guest_words,          \* the words the guest may have written to the window
    window_words,         \* the number of words of the window
    mem,                  \* the words of the window read so far (address -> word)
    invocations,          \* number of ProcessCommandList calls made
    budget,               \* words that may still be declared by ProcessCommandList calls
    \* --- observation (the logs of lines 34 and 98..134) ---
    calls,                \* every WriteReg call, in order
    reads,                \* every Memory::Read32, in order
    headers,              \* every decoded header, in order
    regions,              \* every ProcessCommandList call, in order
    \* --- the instance processed before, for comparing two instances ---
    first_run             \* what a first GPU instance did on the same memory

gpu_vars == <<bound_engines, current_macro_entry, current_macro_code>>
engine_vars == <<fermi_2d, maxwell_3d, maxwell_compute, macros>>
frame_vars == <<pc, head_address, size, current_addr, header, i>>
guest_vars == <<guest_words, window_words, first_run>>
env_vars == <<guest_vars, mem, invocations, budget, regions>>
vars == <<gpu_vars, engine_vars, frame_vars, fatal, env_vars, calls, reads, headers>>

----------------------------------------------------------------------------
(* Bounds of the model *)

\* Total number of command words all ProcessCommandList calls may declare.
MaxWords == 4
\* Number of ProcessCommandList calls.
MaxInvocations == 2

----------------------------------------------------------------------------
(* 32-bit words and the CommandHeader bit fields *)

Word(hi, lo) == [hi |-> hi, lo |-> lo]

U32(n) == Word(n \div 65536, n % 65536)

\* BitField<0, 13> method
HeaderMethod(w) == w.lo % 8192
\* BitField<13, 3> subchannel
HeaderSubchannel(w) == w.lo \div 8192
\* BitField<16, 13> arg_count
HeaderArgCount(w) == w.hi % 8192
\* BitField<16, 13> inline_data: "stored in the bits 16-28 as an immediate"
HeaderInlineData(w) == w.hi % 8192
\* BitField<29, 3> mode
HeaderMode(w) == w.hi \div 8192

\* The word whose fields are the given ones.
MakeHeader(mode, arg_count, subchannel, method) ==
    Word(mode * 8192 + arg_count, subchannel * 8192 + method)

\* enum class SubmissionMode
IncreasingOld == 0
Increasing == 1
NonIncreasingOld == 2
NonIncreasing == 3
IncreaseOnce == 4
Inline == 5

\* enum class BufferMethods
BindObject == 0
SetGraphMacroCode == 69
SetGraphMacroCodeArg == 70
SetGraphMacroEntry == 71
CountBufferMethods == 256

\* enum class EngineID
FERMI_TWOD_A == U32(36909)
MAXWELL_B == U32(45463)
MAXWELL_COMPUTE_B == U32(45504)

InvalidGraphMacroEntry == Word(65535, 65535)

\* sizeof(u32) and sizeof(CommandHeader)
WordBytes == 4

----------------------------------------------------------------------------
(* common/assert.h: a failed assertion stops the emulator.  Both operators *)
(* are TRUE exactly when execution continues with the next statement.      *)

ASSERT(cond) == cond

UNIMPLEMENTED == ASSERT(FALSE)

\* The process stops inside the failing statement: nothing after it runs.
Crash ==
    /\ fatal' = TRUE
    /\ UNCHANGED <<gpu_vars, engine_vars>>

----------------------------------------------------------------------------
(* The memory access port *)

\* The linear addresses of the window the guest has written command words to.
WindowBase == 16 * WordBytes
WindowEnd == WindowBase + window_words * WordBytes
Window == {WindowBase + WordBytes * k : k \in 0 .. window_words - 1}

\* What Memory::Read32(addr) can return: memory is stable, so a word read
\* before reads the same again; outside the window the memory holds zeros.
Read32Values(addr) ==
    IF addr \in DOMAIN mem THEN {mem[addr]}
    ELSE IF addr \in Window THEN guest_words
    ELSE {U32(0)}

\* Memory::Read32(addr) returning w.
Read32(addr, w) ==
    /\ w \in Read32Values(addr)
    /\ mem' = IF addr \in Window /\ addr \notin DOMAIN mem
              THEN [a \in DOMAIN mem \cup {addr} |-> IF a = addr THEN w ELSE mem[a]]
              ELSE mem
    /\ reads' = Append(reads, addr)

\* memory_manager->PhysicalToVirtualAddress(address): the linear addresses the
\* GPU address of a call translates to: the base of the window, or the place
\* where the previous call stopped.
PhysicalToVirtualAddress == {WindowBase, current_addr}

----------------------------------------------------------------------------
(* GPU::WriteReg *)

\* method == SetGraphMacroEntry: prepare to upload a new macro.
UploadMacroEntry_KeepCode(value) ==
    /\ current_macro_entry' = value
    /\ UNCHANGED <<current_macro_code, bound_engines, engine_vars, fatal>>
UploadMacroEntry(value) ==
    /\ current_macro_entry' = value
    /\ current_macro_code' = <<>>
    /\ UNCHANGED <<bound_engines, engine_vars, fatal>>

\* method == SetGraphMacroCodeArg: append a code word, submit on the last one.
AppendMacroCode_FlushEarly(value, remaining_params) ==
    LET code == Append(current_macro_code, value) IN
    /\ IF remaining_params <= 1
       THEN /\ macros' = Append(macros, <<current_macro_entry, code>>)
            /\ current_macro_entry' = InvalidGraphMacroEntry
            /\ current_macro_code' = <<>>
       ELSE /\ current_macro_code' = code
            /\ UNCHANGED <<macros, current_macro_entry>>
    /\ UNCHANGED <<bound_engines, fermi_2d, maxwell_3d, maxwell_compute, fatal>>
AppendMacroCode_KeepCode(value, remaining_params) ==
    LET code == Append(current_macro_code, value) IN
    /\ current_macro_code' = code
    /\ IF remaining_params = 0
       THEN /\ macros' = Append(macros, <<current_macro_entry, code>>)
            /\ current_macro_entry' = InvalidGraphMacroEntry
       ELSE UNCHANGED <<macros, current_macro_entry>>
    /\ UNCHANGED <<bound_engines, fermi_2d, maxwell_3d, maxwell_compute, fatal>>
AppendMacroCode(value, remaining_params) ==
    LET code == Append(current_macro_code, value) IN
    /\ IF remaining_params = 0
       THEN /\ macros' = Append(macros, <<current_macro_entry, code>>)
            /\ current_macro_entry' = InvalidGraphMacroEntry
            /\ current_macro_code' = <<>>
       ELSE /\ current_macro_code' = code
            /\ UNCHANGED <<macros, current_macro_entry>>
    /\ UNCHANGED <<bound_engines, fermi_2d, maxwell_3d, maxwell_compute, fatal>>

\* bound_engines[subchannel] = static_cast<EngineID>(value)
SetBinding(subchannel, value) ==
    [s \in DOMAIN bound_engines \cup {subchannel} |->
        IF s = subchannel THEN value ELSE bound_engines[s]]

\* method == BindObject: bind the subchannel to the engine id.
BindSubchannel_StoreFirst(subchannel, value) ==
    /\ bound_engines' = SetBinding(subchannel, value)
    /\ fatal' = IF ASSERT(subchannel \notin DOMAIN bound_engines) THEN fatal ELSE TRUE
    /\ UNCHANGED <<current_macro_entry, current_macro_code, engine_vars>>
BindSubchannel_Overwrite(subchannel, value) ==
    /\ bound_engines' = SetBinding(subchannel, value)
    /\ UNCHANGED <<current_macro_entry, current_macro_code, engine_vars, fatal>>
BindSubchannel(subchannel, value) ==
    IF ASSERT(subchannel \notin DOMAIN bound_engines)
    THEN /\ bound_engines' = SetBinding(subchannel, value)
         /\ UNCHANGED <<current_macro_entry, current_macro_code, engine_vars, fatal>>
    ELSE Crash

\* method < CountBufferMethods: not implemented, logged and ignored.
SpecialBufferMethod_Fatal == Crash
SpecialBufferMethod ==
    UNCHANGED <<gpu_vars, engine_vars, fatal>>

\* switch (engine): the write goes to the engine's WriteReg.
WriteEngine_All3D(engine, method, value, remaining_params) ==
    IF engine \in {FERMI_TWOD_A, MAXWELL_B, MAXWELL_COMPUTE_B}
    THEN /\ maxwell_3d' = Append(maxwell_3d, <<method, value, remaining_params>>)
         /\ UNCHANGED <<gpu_vars, fermi_2d, maxwell_compute, macros, fatal>>
    ELSE Crash
WriteEngine(engine, method, value, remaining_params) ==
    CASE engine = FERMI_TWOD_A ->
            /\ fermi_2d' = Append(fermi_2d, <<method, value>>)
            /\ UNCHANGED <<gpu_vars, maxwell_3d, maxwell_compute, macros, fatal>>
      [] engine = MAXWELL_B ->
            /\ maxwell_3d' = Append(maxwell_3d, <<method, value, remaining_params>>)
            /\ UNCHANGED <<gpu_vars, fermi_2d, maxwell_compute, macros, fatal>>
      [] engine = MAXWELL_COMPUTE_B ->
            /\ maxwell_compute' = Append(maxwell_compute, <<method, value>>)
            /\ UNCHANGED <<gpu_vars, fermi_2d, maxwell_3d, macros, fatal>>
      [] OTHER ->
            IF UNIMPLEMENTED
            THEN UNCHANGED <<gpu_vars, engine_vars, fatal>>
            ELSE Crash

\* method >= CountBufferMethods: the write goes to the bound engine.
ForwardToEngine_Insert(method, subchannel, value, remaining_params) ==
    IF subchannel \in DOMAIN bound_engines
    THEN WriteEngine(bound_engines[subchannel], method, value, remaining_params)
    ELSE /\ bound_engines' = SetBinding(subchannel, U32(0))
         /\ fatal' = TRUE
         /\ UNCHANGED <<current_macro_entry, current_macro_code, engine_vars>>
ForwardToEngine_Drop(method, subchannel, value, remaining_params) ==
    IF subchannel \in DOMAIN bound_engines
    THEN WriteEngine(bound_engines[subchannel], method, value, remaining_params)
    ELSE UNCHANGED <<gpu_vars, engine_vars, fatal>>
ForwardToEngine(method, subchannel, value, remaining_params) ==
    IF ASSERT(subchannel \in DOMAIN bound_engines)
    THEN WriteEngine(bound_engines[subchannel], method, value, remaining_params)
    ELSE Crash

\* The engine a subchannel is bound to, NoEngine when it has no binding.
NoEngine == Word(-1, -1)
EngineOf(subchannel) ==
    IF subchannel \in DOMAIN bound_engines THEN bound_engines[subchannel] ELSE NoEngine

\* The record of one call, as the log line at the head of WriteReg gives it,
\* with the header it comes from and what the call found: the engine bound to
\* its subchannel and the number of writes and macros the engines had received.
CallRecord(method, subchannel, value, remaining_params) ==
    [method |-> method, subchannel |-> subchannel, value |-> value,
     remaining_params |-> remaining_params,
     h |-> Len(headers), engine |-> EngineOf(subchannel),
     n2d |-> Len(fermi_2d), n3d |-> Len(maxwell_3d),
     ncompute |-> Len(maxwell_compute), nmacros |-> Len(macros)]

WriteReg_NoSpecial(method, subchannel, value, remaining_params) ==
    /\ calls' = Append(calls, CallRecord(method, subchannel, value, remaining_params))
    /\ IF method = SetGraphMacroEntry THEN UploadMacroEntry(value)
       ELSE IF method = SetGraphMacroCodeArg THEN AppendMacroCode(value, remaining_params)
       ELSE IF method = BindObject THEN BindSubchannel(subchannel, value)
       ELSE ForwardToEngine(method, subchannel, value, remaining_params)
WriteReg(method, subchannel, value, remaining_params) ==
    /\ calls' = Append(calls, CallRecord(method, subchannel, value, remaining_params))
    /\ IF method = SetGraphMacroEntry THEN UploadMacroEntry(value)
       ELSE IF method = SetGraphMacroCodeArg THEN AppendMacroCode(value, remaining_params)
       ELSE IF method = BindObject THEN BindSubchannel(subchannel, value)
       ELSE IF method < CountBufferMethods THEN SpecialBufferMethod
       ELSE ForwardToEngine(method, subchannel, value, remaining_params)

----------------------------------------------------------------------------
(* GPU::ProcessCommandList *)

\* The method and remaining_params of the i-th argument of a header.
IncreasingMethod_Fixed(h, n) == HeaderMethod(h)
IncreasingMethod(h, n) == HeaderMethod(h) + n

NonIncreasingMethod_Stepping(h, n) == HeaderMethod(h) + n
NonIncreasingMethod(h, n) == HeaderMethod(h)

IncreaseOnceMethod_Stepping(h, n) == HeaderMethod(h) + n
IncreaseOnceMethod(h, n) == IF n = 0 THEN HeaderMethod(h) ELSE HeaderMethod(h) + 1

RemainingParams(h, n) == HeaderArgCount(h) - n - 1

\* The value an Inline header carries.
InlineValue_Method(h) == U32(HeaderMethod(h))
InlineValue(h) == U32(HeaderInlineData(h))

\* while (current_addr < head_address + size * sizeof(CommandHeader))
WhileCondition == current_addr < head_address + size * WordBytes

\* current_addr += sizeof(u32)
NextAddr(addr) == addr + WordBytes

\* The rest of a loop body after WriteReg returned: advance the cursor and the
\* index, and test the loop condition.  A failed assertion inside WriteReg
\* leaves the frame where it stopped.
Advance_Wide(loop) ==
    IF fatal'
    THEN UNCHANGED <<pc, current_addr, i>>
    ELSE /\ current_addr' = NextAddr(NextAddr(current_addr))
         /\ i' = i + 1
         /\ pc' = IF i + 1 < HeaderArgCount(header) THEN loop ELSE "while"
Advance(loop) ==
    IF fatal'
    THEN UNCHANGED <<pc, current_addr, i>>
    ELSE /\ current_addr' = NextAddr(current_addr)
         /\ i' = i + 1
         /\ pc' = IF i + 1 < HeaderArgCount(header) THEN loop ELSE "while"

\* One iteration of an argument loop: read the argument, dispatch it.
LoopBody(loop, method) ==
    /\ pc = loop
    /\ ~fatal
    /\ \E w \in Read32Values(current_addr) :
          /\ Read32(current_addr, w)
          /\ WriteReg(method, HeaderSubchannel(header), w, RemainingParams(header, i))
    /\ Advance(loop)
    /\ UNCHANGED <<head_address, size, header, headers, guest_vars, invocations, budget,
                   regions>>

ProcessCommandList_ResetUpload(head, word_count) ==
    /\ pc = "idle"
    /\ ~fatal
    /\ invocations < MaxInvocations
    /\ word_count <= budget
    /\ head \in PhysicalToVirtualAddress
    /\ head + word_count * WordBytes <= WindowEnd
    /\ head_address' = head
    /\ current_addr' = head
    /\ size' = word_count
    /\ pc' = "while"
    /\ invocations' = invocations + 1
    /\ budget' = budget - word_count
    /\ regions' = Append(regions, [head |-> head, size |-> word_count,
                                    prev |-> current_addr, nreads |-> Len(reads)])
    /\ current_macro_entry' = InvalidGraphMacroEntry
    /\ current_macro_code' = <<>>
    /\ UNCHANGED <<bound_engines, engine_vars, header, i, fatal, guest_vars, mem,
                   calls, reads, headers>>
\* The call ProcessCommandList(address, size), up to the first loop test.
ProcessCommandList(head, word_count) ==
    /\ pc = "idle"
    /\ ~fatal
    /\ invocations < MaxInvocations
    /\ word_count <= budget
    /\ head \in PhysicalToVirtualAddress
    /\ head + word_count * WordBytes <= WindowEnd
    /\ head_address' = head
    /\ current_addr' = head
    /\ size' = word_count
    /\ pc' = "while"
    /\ invocations' = invocations + 1
    /\ budget' = budget - word_count
    /\ regions' = Append(regions, [head |-> head, size |-> word_count,
                                    prev |-> current_addr, nreads |-> Len(reads)])
    /\ UNCHANGED <<gpu_vars, engine_vars, header, i, fatal, guest_vars, mem,
                   calls, reads, headers>>

\* The loop test fails: ProcessCommandList returns.
Return ==
    /\ pc = "while"
    /\ ~fatal
    /\ ~WhileCondition
    /\ pc' = "idle"
    /\ UNCHANGED <<gpu_vars, engine_vars, head_address, size, current_addr, header, i,
                   fatal, env_vars, calls, reads, headers>>

\* const CommandHeader header = {Memory::Read32(current_addr)}; current_addr += 4
ReadHeader ==
    /\ pc = "while"
    /\ ~fatal
    /\ WhileCondition
    /\ \E w \in Read32Values(current_addr) :
          /\ Read32(current_addr, w)
          /\ header' = w
          /\ headers' = Append(headers, [addr |-> current_addr, word |-> w,
                                                inv |-> invocations])
    /\ current_addr' = NextAddr(current_addr)
    /\ pc' = "switch"
    /\ UNCHANGED <<gpu_vars, engine_vars, head_address, size, i, fatal,
                   guest_vars, invocations, budget, regions, calls>>

\* case IncreasingOld, Increasing: enter the loop (i = 0) or break at once.
CaseIncreasing ==
    /\ pc = "switch"
    /\ ~fatal
    /\ HeaderMode(header) \in {IncreasingOld, Increasing}
    /\ i' = 0
    /\ pc' = IF 0 < HeaderArgCount(header) THEN "for_inc" ELSE "while"
    /\ UNCHANGED <<gpu_vars, engine_vars, head_address, size, current_addr, header,
                   fatal, env_vars, calls, reads, headers>>

ForIncreasing == LoopBody("for_inc", IncreasingMethod(header, i))

\* case NonIncreasingOld, NonIncreasing
CaseNonIncreasing ==
    /\ pc = "switch"
    /\ ~fatal
    /\ HeaderMode(header) \in {NonIncreasingOld, NonIncreasing}
    /\ i' = 0
    /\ pc' = IF 0 < HeaderArgCount(header) THEN "for_noninc" ELSE "while"
    /\ UNCHANGED <<gpu_vars, engine_vars, head_address, size, current_addr, header,
                   fatal, env_vars, calls, reads, headers>>

ForNonIncreasing == LoopBody("for_noninc", NonIncreasingMethod(header, i))

\* case IncreaseOnce: the assertion, then the first argument (i = 0).
CaseIncreaseOnce ==
    /\ pc = "switch"
    /\ ~fatal
    /\ HeaderMode(header) = IncreaseOnce
    /\ IF ASSERT(HeaderArgCount(header) >= 1)
       THEN /\ \E w \in Read32Values(current_addr) :
                  /\ Read32(current_addr, w)
                  /\ WriteReg(IncreaseOnceMethod(header, 0), HeaderSubchannel(header), w,
                              RemainingParams(header, 0))
            /\ IF fatal'
               THEN UNCHANGED <<pc, current_addr, i>>
               ELSE /\ current_addr' = NextAddr(current_addr)
                    /\ i' = 1
                    /\ pc' = IF 1 < HeaderArgCount(header) THEN "for_once" ELSE "while"
       ELSE /\ Crash
            /\ UNCHANGED <<pc, current_addr, i, mem, calls, reads>>
    /\ UNCHANGED <<head_address, size, header, headers, guest_vars, invocations, budget,
                   regions>>

ForIncreaseOnce == LoopBody("for_once", IncreaseOnceMethod(header, i))

CaseInline_SkipWord ==
    /\ pc = "switch"
    /\ ~fatal
    /\ HeaderMode(header) = Inline
    /\ WriteReg(HeaderMethod(header), HeaderSubchannel(header), InlineValue(header), 0)
    /\ pc' = IF fatal' THEN pc ELSE "while"
    /\ current_addr' = IF fatal' THEN current_addr ELSE NextAddr(current_addr)
    /\ UNCHANGED <<head_address, size, header, i, env_vars, reads, headers>>
\* case Inline: the value is in the header, no argument is read.
CaseInline ==
    /\ pc = "switch"
    /\ ~fatal
    /\ HeaderMode(header) = Inline
    /\ WriteReg(HeaderMethod(header), HeaderSubchannel(header), InlineValue(header), 0)
    /\ pc' = IF fatal' THEN pc ELSE "while"
    /\ UNCHANGED <<head_address, size, current_addr, header, i, env_vars, reads, headers>>

\* default: UNIMPLEMENTED()
CaseDefault_Skip ==
    /\ pc = "switch"
    /\ ~fatal
    /\ HeaderMode(header) \notin
          {IncreasingOld, Increasing, NonIncreasingOld, NonIncreasing, IncreaseOnce, Inline}
    /\ pc' = "while"
    /\ UNCHANGED <<gpu_vars, engine_vars, fatal>>
    /\ UNCHANGED <<head_address, size, current_addr, header, i, env_vars, calls, reads,
                   headers>>
CaseDefault ==
    /\ pc = "switch"
    /\ ~fatal
    /\ HeaderMode(header) \notin
          {IncreasingOld, Increasing, NonIncreasingOld, NonIncreasing, IncreaseOnce, Inline}
    /\ IF UNIMPLEMENTED
       THEN /\ pc' = "while"
            /\ UNCHANGED <<gpu_vars, engine_vars, fatal>>
       ELSE /\ Crash
            /\ UNCHANGED pc
    /\ UNCHANGED <<head_address, size, current_addr, header, i, env_vars, calls, reads,
                   headers>>

----------------------------------------------------------------------------
(* The command streams the guest writes *)

\* Streams that bind a subchannel to one engine and write its registers.
BindWords(engine) ==
    { MakeHeader(IncreasingOld, 1, 1, BindObject),
      MakeHeader(NonIncreasing, 2, 1, CountBufferMethods),
      MakeHeader(Inline, 7, 1, CountBufferMethods + 1),
      engine }

\* Streams that upload macros.
MacroWords ==
    { MakeHeader(Inline, 3, 0, SetGraphMacroEntry),
      MakeHeader(NonIncreasing, 2, 0, SetGraphMacroCodeArg),
      MakeHeader(NonIncreasingOld, 3, 0, SetGraphMacroCodeArg),
      MakeHeader(Increasing, 1, 1, SetGraphMacroEntry) }

\* Streams whose runs cross the macro methods.
MacroRunWords ==
    { MakeHeader(Increasing, 3, 0, SetGraphMacroCode),
      MakeHeader(IncreaseOnce, 3, 0, SetGraphMacroCodeArg),
      MakeHeader(Inline, 3, 0, SetGraphMacroEntry),
      MakeHeader(NonIncreasing, 1, 0, SetGraphMacroCodeArg) }

\* Streams with the malformed headers and the unknown engine.
FaultWords ==
    { MakeHeader(IncreaseOnce, 0, 0, CountBufferMethods),
      MakeHeader(IncreaseOnce, 2, 1, BindObject),
      MakeHeader(NonIncreasingOld, 2, 1, BindObject),
      MakeHeader(Inline, 5, 0, BindObject),
      MakeHeader(Inline, 9, 0, CountBufferMethods),
      MakeHeader(6, 1, 0, CountBufferMethods),
      MakeHeader(7, 0, 1, BindObject),
      MAXWELL_B }

GuestStreams ==
    { BindWords(FERMI_TWOD_A), BindWords(MAXWELL_B), BindWords(MAXWELL_COMPUTE_B),
      MacroWords, MacroRunWords, FaultWords }

\* Streams that start a macro upload again before the last code word; they
\* are one word longer than the others.
RestartWords ==
    { MakeHeader(Inline, 3, 0, SetGraphMacroEntry),
      MakeHeader(Increasing, 2, 0, SetGraphMacroCodeArg),
      MakeHeader(Inline, 9, 0, SetGraphMacroCodeArg) }

LongGuestStreams == { RestartWords }

\* No first instance has run.
NoRun ==
    [head |-> 0, size |-> -1, calls |-> <<>>, reads |-> <<>>, headers |-> <<>>,
     gpu |-> <<>>, engines |-> <<>>]

----------------------------------------------------------------------------
(* The state machine *)

Init ==
    /\ bound_engines = <<>>
    /\ current_macro_entry = InvalidGraphMacroEntry
    /\ current_macro_code = <<>>
    /\ fermi_2d = <<>>
    /\ maxwell_3d = <<>>
    /\ maxwell_compute = <<>>
    /\ macros = <<>>
    /\ pc = "idle"
    /\ head_address = WindowBase
    /\ size = 0
    /\ current_addr = WindowBase
    /\ header = U32(0)
    /\ i = 0
    /\ fatal = FALSE
    /\ \/ guest_words \in GuestStreams /\ window_words = MaxWords
       \/ guest_words \in LongGuestStreams /\ window_words = MaxWords + 1
    /\ first_run = NoRun
    /\ mem = <<>>
    /\ invocations = 0
    /\ budget = window_words
    /\ regions = <<>>
    /\ calls = <<>>
    /\ reads = <<>>
    /\ headers = <<>>

Next ==
    \/ \E head \in PhysicalToVirtualAddress, word_count \in 0 .. MaxWords + 1 :
          ProcessCommandList(head, word_count)
    \/ Return
    \/ ReadHeader
    \/ CaseIncreasing
    \/ ForIncreasing
    \/ CaseNonIncreasing
    \/ ForNonIncreasing
    \/ CaseIncreaseOnce
    \/ ForIncreaseOnce
    \/ CaseInline
    \/ CaseDefault

Spec == Init /\ [][Next]_vars

\* The steps of a running ProcessCommandList call.
Step ==
    \/ Return
    \/ ReadHeader
    \/ CaseIncreasing
    \/ ForIncreasing
    \/ CaseNonIncreasing
    \/ ForNonIncreasing
    \/ CaseIncreaseOnce
    \/ ForIncreaseOnce
    \/ CaseInline
    \/ CaseDefault

\* A call that has started keeps running: the emulator thread executing
\* ProcessCommandList is not suspended for ever.
FairSpec == Spec /\ WF_vars(Step)
\* A decoded header without the number of the call that decoded it.
Decoded(hs) == [k \in 1 .. Len(hs) |-> [addr |-> hs[k].addr, word |-> hs[k].word]]

\* A second GPU is constructed and given the same guest memory, after the
\* first one has processed one command list to its end; what the first one
\* did is kept for comparison, and the second one is given as many words, in
\* at most two calls.
NewInstance ==
    /\ pc = "idle"
    /\ ~fatal
    /\ first_run = NoRun
    /\ invocations = 1
    /\ first_run' = [head |-> regions[1].head, size |-> regions[1].size,
                     calls |-> calls, reads |-> reads, headers |-> Decoded(headers),
                     gpu |-> gpu_vars, engines |-> engine_vars]
    /\ bound_engines' = <<>>
    /\ current_macro_entry' = InvalidGraphMacroEntry
    /\ current_macro_code' = <<>>
    /\ fermi_2d' = <<>>
    /\ maxwell_3d' = <<>>
    /\ maxwell_compute' = <<>>
    /\ macros' = <<>>
    /\ head_address' = WindowBase
    /\ size' = 0
    /\ current_addr' = WindowBase
    /\ header' = U32(0)
    /\ i' = 0
    /\ invocations' = MaxInvocations - 2
    /\ budget' = regions[1].size
    /\ regions' = <<>>
    /\ calls' = <<>>
    /\ reads' = <<>>
    /\ headers' = <<>>
    /\ UNCHANGED <<pc, fatal, guest_words, window_words, mem>>

NextSplit ==
    \/ Next
    \/ NewInstance

\* Two instances, one after the other, on the same memory.
SpecSplit == Init /\ [][NextSplit]_vars

----------------------------------------------------------------------------
(* Reading the logs *)

\* The WriteReg calls made for the h-th decoded header, in order.
CallsOf(h) == SelectSeq(calls, LAMBDA c : c.h = h)

\* The word at an address that has been read.
MemAt(addr) == IF addr \in DOMAIN mem THEN mem[addr] ELSE U32(0)

\* The k-th word (k = 0, 1, ...) following the h-th decoded header.
ArgWord(h, k) == MemAt(headers[h].addr + WordBytes * (k + 1))

\* The switch statement of the h-th decoded header has run to its break.
Expanded(h) == h < Len(headers) \/ pc \in {"while", "idle"}

\* The headers decoded so far whose mode is one of `modes`.
HeadersOfMode(modes) == {h \in 1 .. Len(headers) : HeaderMode(headers[h].word) \in modes}

\* The calls made for header h are the first calls of the run the header
\* describes: call k (from 0) has the method MethodAt(k), the header's
\* subchannel, the k-th following word and remaining_params n - 1 - k; the
\* run is complete once the switch statement has reached its break.
RunOf(h, MethodAt(_)) ==
    LET hd == headers[h].word
        n  == HeaderArgCount(hd)
        cs == CallsOf(h)
    IN  /\ Len(cs) <= n
        /\ Expanded(h) => Len(cs) = n
        /\ \A k \in 0 .. Len(cs) - 1 :
              /\ cs[k + 1].method = MethodAt(k)
              /\ cs[k + 1].subchannel = HeaderSubchannel(hd)
              /\ cs[k + 1].value = ArgWord(h, k)
              /\ cs[k + 1].remaining_params = n - 1 - k

----------------------------------------------------------------------------
(* Claims *)

\* C1: a header of mode Increasing or IncreasingOld with method base,
\* subchannel s and arg_count n gives exactly n WriteReg calls, in stream order,
\* call i with method base + i, subchannel s, the i-th following word and
\* remaining_params n - 1 - i (a call that fails an assertion ends the run).
C1_IncreasingRun ==
    \A h \in HeadersOfMode({IncreasingOld, Increasing}) :
        RunOf(h, LAMBDA k : HeaderMethod(headers[h].word) + k)

C1_Witness ==
    \E h \in HeadersOfMode({IncreasingOld, Increasing}) :
        /\ HeaderArgCount(headers[h].word) >= 3
        /\ Expanded(h)
        /\ Len(CallsOf(h)) = HeaderArgCount(headers[h].word)

\* C2: a header of mode NonIncreasing or NonIncreasingOld with method base and
\* arg_count n gives exactly n WriteReg calls, every one with method base,
\* call i with the i-th following word and remaining_params n - 1 - i.
C2_NonIncreasingRun ==
    \A h \in HeadersOfMode({NonIncreasingOld, NonIncreasing}) :
        RunOf(h, LAMBDA k : HeaderMethod(headers[h].word))

C2_Witness ==
    \E h \in HeadersOfMode({NonIncreasingOld, NonIncreasing}) :
        /\ HeaderArgCount(headers[h].word) >= 3
        /\ Expanded(h)
        /\ Len(CallsOf(h)) = HeaderArgCount(headers[h].word)

\* A header of mode IncreaseOnce and arg_count >= 1: the first call has the
\* header's method, the later ones the next method.
C3_IncreaseOnceRun ==
    \A h \in HeadersOfMode({IncreaseOnce}) :
        HeaderArgCount(headers[h].word) >= 1 =>
            RunOf(h, LAMBDA k : IF k = 0 THEN HeaderMethod(headers[h].word)
                                          ELSE HeaderMethod(headers[h].word) + 1)

\* A header of mode IncreaseOnce and arg_count 0 is the last thing decoded: no
\* call is made for it and no word after it is read.
C3_ZeroArgsStops ==
    \A h \in HeadersOfMode({IncreaseOnce}) :
        HeaderArgCount(headers[h].word) = 0 =>
            /\ h = Len(headers)
            /\ CallsOf(h) = <<>>
            /\ reads[Len(reads)] = headers[h].addr
            /\ current_addr = headers[h].addr + WordBytes
            /\ pc = "switch"

\* The step taken at such a header is the failed assertion, and nothing else.
C3_ZeroArgsFails ==
    (/\ pc = "switch"
     /\ HeaderMode(header) = IncreaseOnce
     /\ HeaderArgCount(header) = 0)
    => /\ fatal'
       /\ UNCHANGED <<gpu_vars, engine_vars, frame_vars, env_vars, calls, reads, headers>>

\* C3: a header of mode IncreaseOnce with method base and arg_count n >= 1
\* gives call 1 with method base and calls 2..n with method base + 1, call i
\* with remaining_params n - 1 - i; with arg_count 0 it fails the assertion,
\* makes no WriteReg call and consumes no argument word.
C3_IncreaseOnce ==
    /\ [](C3_IncreaseOnceRun /\ C3_ZeroArgsStops)
    /\ [][C3_ZeroArgsFails]_vars

C3_Witness ==
    \E h1, h2 \in HeadersOfMode({IncreaseOnce}) :
        /\ HeaderArgCount(headers[h1].word) >= 2
        /\ Len(CallsOf(h1)) = HeaderArgCount(headers[h1].word)
        /\ HeaderArgCount(headers[h2].word) = 0
        /\ fatal

\* C4: a header of mode Inline, whatever its arg_count field holds, gives
\* exactly one WriteReg call, with the header's method, the header's
\* inline_data as value and remaining_params 0, and moves the cursor by 4
\* bytes: the word right after the header is the next header.
C4_Inline ==
    \A h \in HeadersOfMode({Inline}) :
        LET hd == headers[h].word
            cs == CallsOf(h)
        IN  /\ Len(cs) <= 1
            /\ (h < Len(headers) \/ pc # "switch" \/ fatal) => Len(cs) = 1
            /\ \A k \in 1 .. Len(cs) :
                  /\ cs[k].method = HeaderMethod(hd)
                  /\ cs[k].subchannel = HeaderSubchannel(hd)
                  /\ cs[k].value = U32(HeaderInlineData(hd))
                  /\ cs[k].remaining_params = 0
            /\ (h = Len(headers) /\ headers[h].inv = invocations) =>
                  /\ current_addr = headers[h].addr + WordBytes
                  /\ reads[Len(reads)] = headers[h].addr
            /\ (h < Len(headers) /\ headers[h + 1].inv = headers[h].inv) =>
                  headers[h + 1].addr = headers[h].addr + WordBytes

C4_Witness ==
    \E h \in HeadersOfMode({Inline}) :
        /\ HeaderArgCount(headers[h].word) >= 2
        /\ h < Len(headers)
        /\ headers[h + 1].inv = headers[h].inv
        /\ headers[h + 1].addr = headers[h].addr + WordBytes
        /\ Len(CallsOf(h)) = 1

\* The j-th call failed an assertion: the process stopped inside it.
CallFailed(j) == fatal /\ j = Len(calls) /\ calls[j].h = Len(headers)

\* What the engines had received when the j-th call returned.
N2dAfter(j) == IF j < Len(calls) THEN calls[j + 1].n2d ELSE Len(fermi_2d)
N3dAfter(j) == IF j < Len(calls) THEN calls[j + 1].n3d ELSE Len(maxwell_3d)
NComputeAfter(j) == IF j < Len(calls) THEN calls[j + 1].ncompute ELSE Len(maxwell_compute)
NMacrosAfter(j) == IF j < Len(calls) THEN calls[j + 1].nmacros ELSE Len(macros)

\* The calls p .. q are an upload: SetGraphMacroEntry, then q - p times
\* SetGraphMacroCodeArg with remaining_params q - p - 1, ..., 1, 0.
IsUpload(p, q) ==
    /\ p < q
    /\ calls[p].method = SetGraphMacroEntry
    /\ \A j \in p + 1 .. q :
          /\ calls[j].method = SetGraphMacroCodeArg
          /\ calls[j].remaining_params = q - j

\* C5: SetGraphMacroEntry with value E followed by k >= 1 SetGraphMacroCodeArg
\* calls with words w0..w(k-1) and remaining_params k-1..0 gives exactly one
\* SubmitMacroCode call, with (E, <<w0, ..., w(k-1)>>), and leaves the upload
\* state empty.
C5_MacroUpload ==
    \A p, q \in 1 .. Len(calls) :
        IsUpload(p, q) =>
            /\ NMacrosAfter(q) = calls[p].nmacros + 1
            /\ macros[NMacrosAfter(q)] =
                  <<calls[p].value, [j \in 1 .. q - p |-> calls[p + j].value]>>
            /\ q = Len(calls) =>
                  /\ current_macro_entry = InvalidGraphMacroEntry
                  /\ current_macro_code = <<>>

C5_Witness ==
    \E p, q \in 1 .. Len(calls) :
        /\ IsUpload(p, q)
        /\ q - p >= 3
        /\ q = Len(calls)
        /\ Len(macros) = 1
        /\ calls[p].value # InvalidGraphMacroEntry

\* The subchannels BindObject was dispatched on, and the first such call.
BindCalls(s) ==
    {j \in 1 .. Len(calls) : calls[j].method = BindObject /\ calls[j].subchannel = s}
FirstBind(s) == CHOOSE j \in BindCalls(s) : \A k \in BindCalls(s) : j <= k

\* C6: BindObject on a subchannel that has a binding fails and leaves the
\* binding as it was; BindObject on a subchannel without one succeeds and
\* records it, so binding A and then B records both.
C6_BindConflict ==
    /\ \A j \in 1 .. Len(calls) :
          calls[j].method = BindObject =>
              IF calls[j].engine # NoEngine
              THEN /\ CallFailed(j)
                   /\ bound_engines[calls[j].subchannel] = calls[j].engine
              ELSE /\ ~CallFailed(j)
                   /\ calls[j].subchannel \in DOMAIN bound_engines
    /\ DOMAIN bound_engines = {s \in 0 .. 7 : BindCalls(s) # {}}
    /\ \A s \in DOMAIN bound_engines : bound_engines[s] = calls[FirstBind(s)].value

C6_Witness ==
    /\ calls # <<>>
    /\ calls[Len(calls)].method = BindObject
    /\ calls[Len(calls)].engine # NoEngine
    /\ calls[Len(calls)].value # calls[Len(calls)].engine
    /\ fatal
    /\ Cardinality(DOMAIN bound_engines) = 2

\* C7: a call with method >= 0x100 on a subchannel without a binding fails:
\* no engine receives a write and the subchannel gets no binding.
C7_UnboundForward ==
    \A j \in 1 .. Len(calls) :
        (calls[j].method >= CountBufferMethods /\ calls[j].engine = NoEngine) =>
            /\ CallFailed(j)
            /\ Len(fermi_2d) = calls[j].n2d
            /\ Len(maxwell_3d) = calls[j].n3d
            /\ Len(maxwell_compute) = calls[j].ncompute
            /\ calls[j].subchannel \notin DOMAIN bound_engines

C7_Witness ==
    /\ calls # <<>>
    /\ calls[Len(calls)].method >= CountBufferMethods
    /\ calls[Len(calls)].engine = NoEngine
    /\ bound_engines # <<>>
    /\ fatal

\* C8: a call with method < 0x100 never writes an engine register and never
\* needs its subchannel bound; the stream of one header (method 0, subchannel
\* s, arg_count 1) and the word v on a fresh instance leaves exactly the
\* binding s -> v and no engine write.
C8_ControlMethods ==
    /\ \A j \in 1 .. Len(calls) :
          calls[j].method < CountBufferMethods =>
              /\ N2dAfter(j) = calls[j].n2d
              /\ N3dAfter(j) = calls[j].n3d
              /\ NComputeAfter(j) = calls[j].ncompute
              /\ calls[j].engine = NoEngine => ~CallFailed(j)
    /\ (Len(calls) = 1 /\ calls[1].method = BindObject) =>
          /\ bound_engines = SetBinding(calls[1].subchannel, calls[1].value)
          /\ DOMAIN bound_engines = {calls[1].subchannel}
          /\ fermi_2d = <<>> /\ maxwell_3d = <<>> /\ maxwell_compute = <<>>

C8_Witness ==
    /\ Len(headers) = 1
    /\ headers[1].word = MakeHeader(IncreasingOld, 1, 1, BindObject)
    /\ pc = "idle"
    /\ Len(calls) = 1
    /\ bound_engines = [s \in {1} |-> MAXWELL_B]
    /\ fermi_2d = <<>> /\ maxwell_3d = <<>> /\ maxwell_compute = <<>>

\* C9: a call with method >= 0x100 on a subchannel bound to FERMI_TWOD,
\* MAXWELL_3D or MAXWELL_COMPUTE delivers exactly one write, to the bound
\* engine and to no other, with the same method and value; the 3D engine also
\* gets the same remaining_params.
C9_Forward ==
    \A j \in 1 .. Len(calls) :
        LET c == calls[j] IN
        (c.method >= CountBufferMethods
            /\ c.engine \in {FERMI_TWOD_A, MAXWELL_B, MAXWELL_COMPUTE_B}) =>
            /\ ~CallFailed(j)
            /\ bound_engines[c.subchannel] = c.engine
            /\ N2dAfter(j) = c.n2d + (IF c.engine = FERMI_TWOD_A THEN 1 ELSE 0)
            /\ N3dAfter(j) = c.n3d + (IF c.engine = MAXWELL_B THEN 1 ELSE 0)
            /\ NComputeAfter(j) = c.ncompute + (IF c.engine = MAXWELL_COMPUTE_B THEN 1 ELSE 0)
            /\ c.engine = FERMI_TWOD_A => fermi_2d[c.n2d + 1] = <<c.method, c.value>>
            /\ c.engine = MAXWELL_B =>
                  maxwell_3d[c.n3d + 1] = <<c.method, c.value, c.remaining_params>>
            /\ c.engine = MAXWELL_COMPUTE_B =>
                  maxwell_compute[c.ncompute + 1] = <<c.method, c.value>>

C9_Witness ==
    \E j \in 1 .. Len(calls) :
        /\ calls[j].method >= CountBufferMethods
        /\ calls[j].engine = MAXWELL_B
        /\ calls[j].remaining_params = 1
        /\ Len(maxwell_3d) = 2

\* A protocol violation has occurred: BindObject on a bound subchannel, a
\* method >= 0x100 on an unbound subchannel, or IncreaseOnce with no argument.
Violation ==
    \/ \E j \in 1 .. Len(calls) :
          \/ calls[j].method = BindObject /\ calls[j].engine # NoEngine
          \/ calls[j].method >= CountBufferMethods /\ calls[j].engine = NoEngine
    \/ \E h \in HeadersOfMode({IncreaseOnce}) : HeaderArgCount(headers[h].word) = 0

\* C10: once a protocol violation has occurred the rest of the stream is
\* aborted: no later word is read, no later WriteReg call is made, no engine
\* receives a later write, and the binding table and the macro upload state
\* do not change.
C10_ViolationAborts ==
    [][Violation => UNCHANGED <<gpu_vars, engine_vars, calls, reads, headers,
                                current_addr, pc>>]_vars

C10_Witness ==
    /\ Violation
    /\ fatal
    /\ WhileCondition
    /\ bound_engines # <<>>

\* The modes no case of the switch statement names.
UnknownModes == {6, 7}

\* A header of an unknown mode is the last thing decoded: no call is made for
\* it and no word after it is read.
C11_UnknownModeStops ==
    \A h \in HeadersOfMode(UnknownModes) :
        /\ h = Len(headers)
        /\ CallsOf(h) = <<>>
        /\ reads[Len(reads)] = headers[h].addr
        /\ pc = "switch"

\* The only step at a header of an unknown mode is the failure.
C11_UnknownModeFails ==
    (pc = "switch" /\ HeaderMode(header) \in UnknownModes) =>
        /\ fatal'
        /\ UNCHANGED <<gpu_vars, engine_vars, calls, reads, headers, current_addr, pc>>

\* A call with method >= 0x100 on a subchannel bound to an engine id that is
\* none of the three engines fails, and no engine receives a write.
C11_UnknownEngineFails ==
    \A j \in 1 .. Len(calls) :
        (calls[j].method >= CountBufferMethods
            /\ calls[j].engine \notin
                  {NoEngine, FERMI_TWOD_A, MAXWELL_B, MAXWELL_COMPUTE_B}) =>
            /\ CallFailed(j)
            /\ Len(fermi_2d) = calls[j].n2d
            /\ Len(maxwell_3d) = calls[j].n3d
            /\ Len(maxwell_compute) = calls[j].ncompute

\* C11: a header whose mode is 6 or 7 is a fatal decode error that makes no
\* WriteReg call and stops processing, and a forward of a method >= 0x100 to a
\* subchannel bound to an engine id outside FERMI_TWOD, MAXWELL_3D and
\* MAXWELL_COMPUTE fails with no engine receiving the write.
C11_UnknownModeOrEngine ==
    /\ [](C11_UnknownModeStops /\ C11_UnknownEngineFails)
    /\ [][C11_UnknownModeFails]_vars

C11_Witness ==
    /\ fatal
    /\ calls # <<>>
    /\ calls[Len(calls)].method >= CountBufferMethods
    /\ calls[Len(calls)].engine = U32(5)
    /\ bound_engines = [s \in {0} |-> U32(5)]

\* A header of an unknown mode has stopped the process.
C11_ModeReached ==
    /\ fatal
    /\ HeadersOfMode(UnknownModes) # {}
    /\ Len(headers) >= 2

\* The call a step makes, when it makes one.
CallMade == calls' # calls
MadeCall == calls'[Len(calls')]

\* C12: a WriteReg call with a method below 0x100 other than BindObject,
\* SetGraphMacroCodeArg and SetGraphMacroEntry (SetGraphMacroCode, 0x45, for
\* one) changes neither the binding table nor the macro upload state nor any
\* engine, is not an error, and ProcessCommandList goes on with the next words.
C12_IgnoredControlMethod ==
    [][(CallMade /\ MadeCall.method < CountBufferMethods
            /\ MadeCall.method \notin
                  {BindObject, SetGraphMacroCodeArg, SetGraphMacroEntry}) =>
          /\ UNCHANGED <<gpu_vars, engine_vars>>
          /\ ~fatal'
          /\ pc' \in {"while", "for_inc", "for_noninc", "for_once"}
          /\ HeaderMode(header) # Inline => current_addr' = NextAddr(current_addr)]_vars

C12_Witness ==
    \E j \in 2 .. Len(calls) - 1 :
        /\ calls[j].method = SetGraphMacroCode
        /\ calls[j - 1].method = SetGraphMacroEntry
        /\ calls[j + 1].method = SetGraphMacroCodeArg
        /\ current_macro_code = <<calls[j + 1].value>>
        /\ current_macro_entry = calls[j - 1].value
        /\ ~fatal

\* Call q is the last code word of an upload: it flushes.
IsFlush(q) ==
    calls[q].method = SetGraphMacroCodeArg /\ calls[q].remaining_params = 0

\* Call p is the last SetGraphMacroEntry before call q, with no flush between.
IsLastEntry(p, q) ==
    /\ p < q
    /\ calls[p].method = SetGraphMacroEntry
    /\ \A j \in p + 1 .. q - 1 : calls[j].method # SetGraphMacroEntry /\ ~IsFlush(j)

\* The code words dispatched by the calls p + 1 .. q.
CodeWords(p, q) ==
    LET cs == SelectSeq(SubSeq(calls, p + 1, q),
                        LAMBDA c : c.method = SetGraphMacroCodeArg)
    IN  [k \in 1 .. Len(cs) |-> cs[k].value]

\* C13: SetGraphMacroEntry dispatched while an upload is partly accumulated
\* submits nothing and discards the accumulated words: the next flush submits
\* the new entry with only the words appended after it, so the words of the
\* abandoned upload are never submitted.
C13_RestartDiscards ==
    /\ \A p \in 1 .. Len(calls) :
          calls[p].method = SetGraphMacroEntry =>
              /\ NMacrosAfter(p) = calls[p].nmacros
              /\ p = Len(calls) =>
                    /\ current_macro_entry = calls[p].value
                    /\ current_macro_code = <<>>
    /\ \A p, q \in 1 .. Len(calls) :
          (IsFlush(q) /\ IsLastEntry(p, q)) =>
              macros[calls[q].nmacros + 1] = <<calls[p].value, CodeWords(p, q)>>

C13_Witness ==
    \E e, a, p, q \in 1 .. Len(calls) :
        /\ e < a /\ a < p
        /\ IsLastEntry(e, p)
        /\ calls[a].method = SetGraphMacroCodeArg
        /\ calls[a].remaining_params > 0
        /\ calls[p].value # calls[e].value
        /\ IsFlush(q) /\ IsLastEntry(p, q)
        /\ macros = << <<calls[p].value, <<calls[q].value>> >> >>

\* SubmitMacroCode is called by the flushing calls and by no other call.
C14_SubmitOnlyOnFlush ==
    \A j \in 1 .. Len(calls) :
        NMacrosAfter(j) = calls[j].nmacros + (IF IsFlush(j) THEN 1 ELSE 0)

\* A SetGraphMacroCodeArg call with remaining_params > 0 only appends its
\* value; one with remaining_params = 0 submits and leaves the state empty.
C14_CodeArgStep ==
    (CallMade /\ MadeCall.method = SetGraphMacroCodeArg) =>
        IF MadeCall.remaining_params > 0
        THEN /\ current_macro_code' = Append(current_macro_code, MadeCall.value)
             /\ UNCHANGED <<current_macro_entry, bound_engines, engine_vars>>
        ELSE /\ macros' = Append(macros, <<current_macro_entry,
                                           Append(current_macro_code, MadeCall.value)>>)
             /\ current_macro_entry' = InvalidGraphMacroEntry
             /\ current_macro_code' = <<>>
             /\ UNCHANGED <<bound_engines, fermi_2d, maxwell_3d, maxwell_compute>>

\* C14: SubmitMacroCode is called exactly on the calls with method
\* SetGraphMacroCodeArg and remaining_params = 0 and on no other call; a
\* SetGraphMacroCodeArg call with remaining_params > 0 only appends its value;
\* right after every flush the macro upload state is empty.
C14_FlushExactlyOnLastArg ==
    /\ []C14_SubmitOnlyOnFlush
    /\ [][C14_CodeArgStep]_vars

C14_Witness ==
    \E q \in 3 .. Len(calls) - 1 :
        /\ IsFlush(q)
        /\ \A j \in {q - 2, q - 1} :
              calls[j].method = SetGraphMacroCodeArg /\ calls[j].remaining_params > 0
        /\ Len(macros) = 1
        /\ Len(macros[1][2]) = 3
        /\ calls[q + 1].method = SetGraphMacroCodeArg
        /\ calls[q + 1].remaining_params > 0
        /\ current_macro_entry = InvalidGraphMacroEntry
        /\ current_macro_code = <<calls[q + 1].value>>

\* The binding of subchannel s changes in a step only from none to the value
\* of a BindObject call the step makes on s, and that call succeeds.
C15_BindingStep ==
    \A s \in 0 .. 7 :
        (EngineOf(s))' # EngineOf(s) =>
            /\ EngineOf(s) = NoEngine
            /\ CallMade
            /\ MadeCall.method = BindObject
            /\ MadeCall.subchannel = s
            /\ (EngineOf(s))' = MadeCall.value
            /\ ~fatal'

\* C15: the binding table entry of a subchannel changes only by a successful
\* BindObject on that subchannel, from unbound to bound; every other WriteReg
\* call, of any method on any subchannel, leaves it unchanged, so a bound
\* subchannel is never unbound or rebound.
C15_BindingsOnlyAdded == [][C15_BindingStep]_vars

C15_Witness ==
    /\ Cardinality(DOMAIN bound_engines) = 2
    /\ ~fatal
    /\ \E j \in 2 .. Len(calls) - 1 :
          /\ calls[j].method = BindObject
          /\ calls[j].engine = NoEngine
          /\ calls[j + 1].method # BindObject
          /\ calls[j + 1].subchannel = calls[j].subchannel
          /\ bound_engines[calls[j].subchannel] = calls[j].value

\* The second instance has been given the command list of the first one in
\* two calls, split at a header boundary: the first call stopped exactly at
\* the end of its region and the second call starts there.
SplitRun ==
    /\ first_run # NoRun
    /\ Len(regions) = 2
    /\ regions[1].head = first_run.head
    /\ regions[2].head = regions[1].head + regions[1].size * WordBytes
    /\ regions[2].prev = regions[2].head
    /\ regions[1].size + regions[2].size = first_run.size

IsPrefix(s, t) == Len(s) <= Len(t) /\ s = SubSeq(t, 1, Len(s))

\* C16: the binding table and the macro upload state carry over from one
\* ProcessCommandList call to the next and nothing else does: a stream
\* processed in one call and the same words processed in two consecutive calls
\* split at a header boundary give the same WriteReg calls, the same engine
\* writes and SubmitMacroCode calls and the same final binding table and macro
\* upload state.
C16_SplitEquivalence ==
    SplitRun =>
        /\ ~fatal
        /\ IsPrefix(calls, first_run.calls)
        /\ IsPrefix(reads, first_run.reads)
        /\ pc = "idle" =>
              /\ calls = first_run.calls
              /\ reads = first_run.reads
              /\ Decoded(headers) = first_run.headers
              /\ gpu_vars = first_run.gpu
              /\ engine_vars = first_run.engines

C16_Witness ==
    /\ SplitRun
    /\ pc = "idle"
    /\ Len(headers) = 2
    /\ headers[1].inv < headers[2].inv
    /\ Len(calls) = 3
    /\ calls[1].method = SetGraphMacroEntry
    /\ macros = << <<calls[1].value, <<calls[2].value, calls[3].value>> >> >>

\* The addresses read by the v-th ProcessCommandList call, in order.
ReadsOf(v) ==
    SubSeq(reads, regions[v].nreads + 1,
           IF v < Len(regions) THEN regions[v + 1].nreads ELSE Len(reads))

\* The number of argument words read for the h-th decoded header.
ArgsRead(h) == IF HeaderMode(headers[h].word) = Inline THEN 0 ELSE Len(CallsOf(h))

\* The k-th read of a call is at its translated base plus 4 * (k - 1).
C17_ReadsInOrder ==
    \A v \in 1 .. Len(regions) :
        \A k \in 1 .. Len(ReadsOf(v)) :
            ReadsOf(v)[k] = regions[v].head + WordBytes * (k - 1)

\* Within one call, no word read as an argument is decoded as a header.
C17_ArgsNotHeaders ==
    \A h1, h2 \in 1 .. Len(headers) :
        headers[h1].inv = headers[h2].inv =>
            \A k \in 1 .. ArgsRead(h1) :
                headers[h2].addr # headers[h1].addr + WordBytes * k

\* The base is translated once, when the call starts, and kept.
C17_BaseStep ==
    (head_address' # head_address \/ regions' # regions) =>
        /\ pc = "idle"
        /\ pc' = "while"
        /\ Len(regions') = Len(regions) + 1
        /\ regions'[Len(regions')].head = head_address'
        /\ current_addr' = head_address'

\* C17: within one ProcessCommandList call the base address is translated
\* once and the 32-bit reads are at strictly increasing addresses, the first at
\* the translated base and each later one 4 bytes after the one before, so
\* every consumed word is read once and a word consumed as an argument is
\* never also decoded as a header.
C17_SequentialReads ==
    /\ [](C17_ReadsInOrder /\ C17_ArgsNotHeaders)
    /\ [][C17_BaseStep]_vars

C17_Witness ==
    /\ Len(regions) = 2
    /\ regions[2].head = regions[1].head
    /\ Len(ReadsOf(1)) >= 3
    /\ Len(ReadsOf(2)) >= 4
    /\ Len(headers) >= 4
    /\ \E h \in 1 .. Len(headers) : ArgsRead(h) >= 2

\* The end of the region of the v-th ProcessCommandList call.
RegionEnd(v) == regions[v].head + regions[v].size * WordBytes

\* C18: every word a ProcessCommandList call reads lies inside its region
\* [translated_base, translated_base + 4 * word_count), even when a header's
\* arg_count exceeds the words left, and the cursor at exit is the end of the
\* region.
C18_ReadsInRegion ==
    /\ \A v \in 1 .. Len(regions) :
          \A k \in 1 .. Len(ReadsOf(v)) :
              regions[v].head <= ReadsOf(v)[k] /\ ReadsOf(v)[k] < RegionEnd(v)
    /\ (pc = "idle" /\ regions # <<>>) => current_addr = RegionEnd(Len(regions))

\* C19: SubmitMacroCode is never called with the invalid entry id: every
\* SubmitMacroCode(E, code) call comes after a SetGraphMacroEntry(E) call made
\* since the flush before it, so code words dispatched before any
\* SetGraphMacroEntry, or after a flush without a new SetGraphMacroEntry, are
\* never submitted.
C19_NoInvalidSubmit ==
    /\ \A m \in 1 .. Len(macros) : macros[m][1] # InvalidGraphMacroEntry
    /\ \A q \in 1 .. Len(calls) :
          IsFlush(q) =>
              \E p \in 1 .. q - 1 :
                  /\ IsLastEntry(p, q)
                  /\ macros[calls[q].nmacros + 1][1] = calls[p].value

\* The number of bytes the loop iteration of a header of a known mode consumes.
HeaderBytes(hd) ==
    WordBytes * (1 + (IF HeaderMode(hd) = Inline THEN 0 ELSE HeaderArgCount(hd)))

\* Where the cursor stands once the iteration of the h-th header is over: at
\* the next header of the same call, or where the call is now.
CursorAfter(h) ==
    IF h < Len(headers) THEN headers[h + 1].addr ELSE current_addr

\* Every completed iteration advances the cursor by 4 bytes for Inline and by
\* 4 * (1 + arg_count) for the other known modes.
C20_Advance ==
    \A h \in 1 .. Len(headers) :
        (/\ HeaderMode(headers[h].word) \notin UnknownModes
         /\ Expanded(h)
         /\ IF h < Len(headers) THEN headers[h + 1].inv = headers[h].inv
                                ELSE headers[h].inv = invocations) =>
            CursorAfter(h) = headers[h].addr + HeaderBytes(headers[h].word)

\* A call with word_count 0 returns at once: no read, no WriteReg call.
C20_EmptyListStep ==
    (pc # "idle" /\ size = 0) =>
        /\ pc' = "idle"
        /\ UNCHANGED <<reads, calls, headers, gpu_vars, engine_vars, current_addr>>

\* C20: for every word_count and every stream ProcessCommandList terminates,
\* by returning or by a fatal protocol violation; every loop iteration
\* advances the cursor, by 4 bytes for Inline and by 4 * (1 + arg_count) for
\* every other known mode; word_count 0 performs no read and no WriteReg call.
C20_Terminates ==
    /\ []C20_Advance
    /\ [][C20_EmptyListStep]_vars
    /\ (pc # "idle") ~> (pc = "idle" \/ fatal)

C20_Witness ==
    /\ pc = "idle"
    /\ Len(regions) = 2
    /\ regions[1].size = 0
    /\ regions[2].size >= 2
    /\ \E h1, h2 \in 1 .. Len(headers) :
          /\ HeaderMode(headers[h1].word) = Inline
          /\ HeaderMode(headers[h2].word) \in {Increasing, NonIncreasing, IncreaseOnce}
          /\ HeaderArgCount(headers[h2].word) >= 2
          /\ h1 < h2
          /\ current_addr = headers[h2].addr + HeaderBytes(headers[h2].word)

====
